---- MODULE Spec2Model ----
(***************************************************************************)
(* A model of the crawl orchestrator of mpraski/crawler (crawler.go, kept  *)
(* here as src/unnamed/part_002): the Crawl goroutine, the fetch tasks     *)
(* (Crawler.crawl), the extraction workers (Crawler.collect) and the       *)
(* caller in main.go.  Every access to a lock-guarded map, every WaitGroup *)
(* operation and every channel operation is one atomic step, so that the   *)
(* check-then-act sequences of the code interleave as they do in Go.       *)
(*                                                                         *)
(* Pages are heap objects: `pages` is the heap, a Page pointer is an index *)
(* into it, and `sites` maps a key to a pointer.  The error channel is     *)
(* modelled by the number of values buffered in it (the values themselves  *)
(* are never inspected by the crawler).                                    *)
(***************************************************************************)
EXTENDS Bags, FiniteSets, Integers, Sequences, TLC

VARIABLES
    call,        \* the constructor call that made the crawler
    err,         \* the error the constructor returned
    downloader,  \* Crawler.downloader: "default" or the one of the Options
    url,         \* Crawler.url: the name the site knows the root URL by
    maxRetries,  \* Crawler.maxRetries
    maxWorkers,  \* Crawler.maxWorkers
    callback,    \* Crawler.callback # nil
    web,         \* what the Downloader and the Extractor answer, per URL
    wg,          \* Crawler.wg: the pending work counter
    wgStop,      \* Crawler.wgStop
    sites,       \* Crawler.sites: key -> Page pointer
    pages,       \* the heap of Page objects
    retries,     \* Crawler.retries
    processed,   \* Crawler.processed
    results,     \* Crawler.results: the buffered channel of fetch results
    closed,      \* close(c.results) has been executed
    errors,      \* Crawler.errors: number of errors buffered in the channel
    done,        \* number of values delivered on Crawler.done
    pc,          \* position of Crawl and of the goroutine it starts
    stopped,     \* stopGoroutines: number of quit channels already served
    tasks,       \* the running Crawler.crawl goroutines (a bag)
    workers,     \* the Crawler.collect goroutines
    called,      \* the callback invocations so far (a bag of URLs)
    errRead,     \* main.go: the error-printing goroutine has received
    buffer,      \* the bytes.Buffers of the default downloader's pool
    failed,      \* history: URLs some fetch task has given up on
    started,     \* history: the URLs of the fetch tasks started (a bag)
    unparsed     \* history: URLs whose extraction failed

vars == <<call, err, downloader, url, maxRetries, maxWorkers, callback, web, wg, wgStop, sites, pages,
          retries, processed, results, closed, errors, done, pc, stopped,
          tasks, workers, called, errRead, buffer, failed, started, unparsed>>

config == <<call, err, downloader, url, maxRetries, maxWorkers, callback, web>>

----------------------------------------------------------------------------
(* Bounds of the model and constants of the program *)

MaxClique == 2      \* C3: largest K of the cross-linked site
MaxChain == 3       \* C9: largest N of the linear chain
ManyRetries == 101  \* a retry budget large enough to fill the error channel
PoolSize == 2       \* buffers of the pool a download may be handed
ErrorsCap == 100    \* make(chan error, 100)
DefaultRetries == 2 \* defaultOptions.MaxRetries
DefaultWorkers == 10 \* defaultOptions.MaxWorkers

ROOT == "<root>"    \* the sentinel key

Names == <<"u0", "u1", "u2", "u3", "u4", "u5", "u6">>

----------------------------------------------------------------------------
(* The sites crawled: what Download and Extract answer *)

Others(K, i) == SelectSeq([j \in 1..K |-> Names[j + 1]], LAMBDA n : n # Names[i + 1])

\* a root linking to K pages which all link to each other
CliqueLinks(K) ==
    [n \in {Names[j] : j \in 1..(K + 1)} |->
        IF n = Names[1] THEN [j \in 1..K |-> Names[j + 1]]
        ELSE Others(K, (CHOOSE j \in 1..K : Names[j + 1] = n))]

\* root -> p1 -> ... -> pN
ChainLinks(N) ==
    [n \in {Names[j] : j \in 1..(N + 1)} |->
        IF n = Names[N + 1] THEN << >>
        ELSE <<Names[(CHOOSE j \in 1..N : Names[j] = n) + 1]>>]

\* a root linking to two pages which link to each other
TriangleLinks ==
    ("u0" :> <<"u1", "u2">>) @@ ("u1" :> <<"u2">>) @@ ("u2" :> <<"u1">>)

\* A links to B and B links back to A
MutualLinks == ("u0" :> <<"u1">>) @@ ("u1" :> <<"u0">>)

\* two pages, extracted concurrently, link to the same third page
DiamondLinks ==
    ("u0" :> <<"u1", "u2">>) @@ ("u1" :> <<"u3">>) @@ ("u2" :> <<"u3">>)
        @@ ("u3" :> << >>)

NoAssets(links) == [n \in DOMAIN links |-> << >>]

Web(kind, links, failing, broken) ==
    [kind |-> kind, links |-> links, assets |-> NoAssets(links),
     failing |-> failing, broken |-> broken]

\* a root URL as the caller writes it: with or without "scheme://", with or
\* without a host
RawURLs == [scheme : {"", "https"}, host : {"", "u0"}]

ValidURL == [scheme |-> "https", host |-> "u0"]

\* Options; Downloader and Extractor tell whether the field is non-nil
Options(workers_, retries_, cb, dl, ex) ==
    [MaxWorkers |-> workers_, MaxRetries |-> retries_, Callback |-> cb,
     Downloader |-> dl, Extractor |-> ex]

\* NewCrawler takes no Options
NoOptions == Options(0, 0, FALSE, FALSE, FALSE)

\* a constructor call, and the site the crawler it returns is run on
Call(fn, rawurl, options, w) ==
    [fn |-> fn, rawurl |-> rawurl, options |-> options, web |-> w]

\* a valid root URL, a Downloader that returns bytes of its own, the default
\* Extractor
Scenario(w, workers_, retries_, cb) ==
    Call("NewCrawlerWithOptions", ValidURL,
         Options(workers_, retries_, cb, TRUE, FALSE), w)

\* the crawls of Spec: which site, how many workers and retries, what fails
Scenarios ==
    {Scenario(Web("chain", ChainLinks(N), {}, {}), 1, DefaultRetries, FALSE) :
        N \in 0..MaxChain}
    \cup {Scenario(Web("triangle", TriangleLinks, {}, {}), N, DefaultRetries, FALSE) :
        N \in 1..2}
    \cup {Scenario(Web("mutual", MutualLinks, {"u1"}, {}), N, 1, TRUE) : N \in 1..2}
    \cup {Scenario(Web("mutual", MutualLinks, {}, {"u1"}), 1, 1, FALSE)}
    \cup {Scenario(Web("diamond", DiamondLinks, {"u3"}, {}), 2, 1, TRUE),
          Scenario(Web("diamond", DiamondLinks, {}, {"u3"}), 2, 1, FALSE)}
    \cup {Scenario(Web("single", ChainLinks(0), {"u0"}, {}), 1, r, FALSE) :
            r \in {DefaultRetries, ManyRetries}}
    \cup {Scenario(Web("triangle", TriangleLinks, {}, {}), N, 0, TRUE) :
            N \in 1..2}

\* the crawls of CliqueSpec: the cross-linked sites of every size K up to
\* MaxClique with every worker count 1..K, and two small crawls with failures
CliqueScenarios ==
    {Scenario(Web("clique", CliqueLinks(kn[1]), {}, {}), kn[2], DefaultRetries, FALSE) :
        kn \in {x \in (1..MaxClique) \X (1..MaxClique) : x[2] <= x[1]}}
    \cup {Scenario(Web("mutual", MutualLinks, {"u1"}, {}), 1, 1, TRUE),
          Scenario(Web("mutual", MutualLinks, {}, {"u1"}), 1, 1, FALSE)}

----------------------------------------------------------------------------
(* The guarded maps *)

Put(m, k, v) == [x \in DOMAIN m \cup {k} |-> IF x = k THEN v ELSE m[x]]

hasVisited(u) == u \in DOMAIN sites

markVisited(u, page) == Put(sites, u, page)

\* faulty variant: the back edge lands on the discovering Page instead of the target
addLinkedFromSource(u, page) ==
    [pages EXCEPT ![page].LinkedFrom = Append(@, sites[u])]

addLinkedFrom(u, page) ==
    [pages EXCEPT ![sites[u]].LinkedFrom = Append(@, page)]

addLinksTo(u, page) ==
    [pages EXCEPT ![sites[u]].LinksTo = Append(@, page)]

\* faulty variant: a URL never marked reads as being processed
isBeingProcessedUnset(u) == IF u \in DOMAIN processed THEN processed[u] ELSE TRUE

isBeingProcessed(u) == IF u \in DOMAIN processed THEN processed[u] ELSE FALSE

markBeingProcessed(u, b) == Put(processed, u, b)

retryCount(u) == IF u \in DOMAIN retries THEN retries[u] ELSE 0

\* faulty variant: a URL whose counter has reached the budget is still retried
shouldRetryInclusive(u) == retryCount(u) <= maxRetries

shouldRetry(u) == retryCount(u) < maxRetries

markRetry(u) == Put(retries, u, retryCount(u) + 1)

NewPage(title, u, assets) ==
    [Title |-> title, Url |-> u, LinkedFrom |-> << >>, LinksTo |-> << >>,
     Assets |-> assets]

----------------------------------------------------------------------------
(* The constructors *)

\* url.ParseRequestURI accepts an absolute URI or an absolute path: text that
\* begins with a host name is neither
ParseRequestURI(rawurl) ==
    IF rawurl.scheme = "" /\ rawurl.host # ""
    THEN [err |-> "invalid URI for request", Scheme |-> "", Host |-> ""]
    ELSE [err |-> "nil", Scheme |-> rawurl.scheme, Host |-> rawurl.host]

\* the error NewDefaultExtractor returns
NewDefaultExtractor(rawurl) ==
    LET u == ParseRequestURI(rawurl)
    IN  IF u.err # "nil" THEN u.err
        ELSE IF u.Scheme = "" \/ u.Host = "" THEN "ErrInvalidURL"
        ELSE "nil"

\* the Crawler and the error the constructor returns
NewCrawler(rawurl) ==
    [err |-> NewDefaultExtractor(rawurl),
     maxRetries |-> DefaultRetries, maxWorkers |-> DefaultWorkers,
     downloader |-> "default", callback |-> FALSE]

NewCrawlerWithOptions(rawurl, options) ==
    [err |-> IF options.Extractor THEN "nil" ELSE NewDefaultExtractor(rawurl),
     maxRetries |-> options.MaxRetries, maxWorkers |-> options.MaxWorkers,
     downloader |-> IF options.Downloader THEN "options" ELSE "default",
     callback |-> options.Callback]

Construct(c) ==
    IF c.fn = "NewCrawler" THEN NewCrawler(c.rawurl)
    ELSE NewCrawlerWithOptions(c.rawurl, c.options)

\* the state the constructor call leaves: a Crawler on which Crawl can be
\* called (pc = "new"), or no Crawler at all (pc = "nil")
Start(scenario) ==
    /\ call = [fn |-> scenario.fn, rawurl |-> scenario.rawurl,
               options |-> scenario.options]
    /\ err = Construct(scenario).err
    /\ downloader = Construct(scenario).downloader
    /\ web = scenario.web
    /\ maxWorkers = Construct(scenario).maxWorkers
    /\ maxRetries = Construct(scenario).maxRetries
    /\ callback = Construct(scenario).callback
    /\ url = "u0"
    /\ wg = 0
    /\ wgStop = 0
    /\ sites = << >>
    /\ pages = << >>
    /\ retries = << >>
    /\ processed = << >>
    /\ results = << >>
    /\ closed = FALSE
    /\ errors = 0
    /\ done = 0
    /\ pc = IF Construct(scenario).err = "nil" THEN "new" ELSE "nil"
    /\ stopped = 0
    /\ tasks = EmptyBag
    /\ workers = << >>
    /\ called = EmptyBag
    /\ errRead = FALSE
    /\ buffer = [b \in 1..PoolSize |-> ""]
    /\ failed = {}
    /\ started = EmptyBag
    /\ unparsed = {}

Init == \E scenario \in Scenarios : Start(scenario)

CliqueInit == \E scenario \in CliqueScenarios : Start(scenario)

\* the constructor calls of CallSpec: NewCrawler and NewCrawlerWithOptions on
\* every form of root URL and every combination of options, on a site of one
\* page, and three crawls of larger sites with the default downloader
Calls ==
    {Call("NewCrawler", r, NoOptions,
          Web("single", ChainLinks(0), {}, {})) : r \in RawURLs}
    \cup {Call("NewCrawlerWithOptions", r, Options(1, n, cb, dl, ex),
               Web("single", ChainLinks(0),
                   IF r = ValidURL \/ dl THEN {} ELSE {"u0"}, {})) :
            r \in RawURLs, n \in 0..1, cb \in BOOLEAN, dl \in BOOLEAN,
            ex \in BOOLEAN}
    \cup {Call("NewCrawlerWithOptions", ValidURL,
               Options(1, 1, TRUE, FALSE, FALSE), w) :
            w \in {Web("triangle", TriangleLinks, {}, {}),
                   Web("mutual", MutualLinks, {"u1"}, {}),
                   Web("mutual", MutualLinks, {}, {"u1"})}}

CallInit == \E c \in Calls : Start(c)

----------------------------------------------------------------------------
(* Crawler.Crawl and the goroutine it starts *)

Idle ==
    [pc |-> "select", url |-> "", from |-> "", doc |-> "", page |-> 0, i |-> 0]

\* body: the buffer the downloaded bytes lie in, 0 for bytes of their own
Task(u, from, at) == [url |-> u, from |-> from, pc |-> at, body |-> 0]

\* c.wgStop.Add(c.maxWorkers); one quit channel and one collect goroutine each
Crawl ==
    /\ pc = "new"
    /\ wgStop' = wgStop + maxWorkers
    /\ workers' = [w \in 1..maxWorkers |-> Idle]
    /\ pc' = "add"
    /\ UNCHANGED <<config, buffer, started, unparsed, wg, sites, pages, retries, processed, results, closed,
                   errors, done, stopped, tasks, called, errRead, failed>>

\* c.wg.Add(1)
CrawlAdd ==
    /\ pc = "add"
    /\ wg' = wg + 1
    /\ pc' = "root"
    /\ UNCHANGED <<config, buffer, started, unparsed, wgStop, sites, pages, retries, processed, results,
                   closed, errors, done, stopped, tasks, workers, called, errRead,
                   failed>>

\* c.sites["<root>"] = &Page{...}
CrawlRoot ==
    /\ pc = "root"
    /\ pages' = Append(pages, NewPage("", "", << >>))
    /\ sites' = Put(sites, ROOT, Len(pages) + 1)
    /\ pc' = "crawl"
    /\ UNCHANGED <<config, buffer, started, unparsed, wg, wgStop, retries, processed, results, closed, errors,
                   done, stopped, tasks, workers, called, errRead, failed>>

\* c.crawl(c.url, "<root>"), run by this goroutine itself: CrawlWait is taken
\* only once that call has returned
CrawlStart ==
    /\ pc = "crawl"
    /\ tasks' = tasks (+) SetToBag({Task(url, ROOT, "download")})
    /\ started' = started (+) SetToBag({url})
    /\ pc' = "wait"
    /\ UNCHANGED <<config, buffer, unparsed, wg, wgStop, sites, pages, retries, processed, results,
                   closed, errors, done, stopped, workers, called, errRead, failed>>

RootReturned == \A t \in BagToSet(tasks) : t.from # ROOT

\* faulty variant: Crawl does not wait for the pending work counter
CrawlWaitNoCounter ==
    /\ pc = "wait"
    /\ RootReturned
    /\ pc' = "stop"
    /\ UNCHANGED <<config, buffer, started, unparsed, wg, wgStop, sites, pages, retries, processed, results,
                   closed, errors, done, stopped, tasks, workers, called, errRead,
                   failed>>

\* c.wg.Wait()
CrawlWait ==
    /\ pc = "wait"
    /\ RootReturned
    /\ wg = 0
    /\ pc' = "stop"
    /\ UNCHANGED <<config, buffer, started, unparsed, wg, wgStop, sites, pages, retries, processed, results,
                   closed, errors, done, stopped, tasks, workers, called, errRead,
                   failed>>

\* stopGoroutines: c.quit[i] <- struct{}{} meets worker i's case <-quit
Quit(w) ==
    /\ pc = "stop"
    /\ w = stopped + 1
    /\ workers[w].pc = "select"
    /\ workers' = [workers EXCEPT ![w].pc = "return"]
    /\ stopped' = stopped + 1
    /\ pc' = IF stopped + 1 = maxWorkers THEN "stopwait" ELSE "stop"
    /\ UNCHANGED <<config, buffer, started, unparsed, wg, wgStop, sites, pages, retries, processed, results,
                   closed, errors, done, tasks, called, errRead, failed>>

\* faulty variant: Crawl does not wait for the workers to return
StopWaitNoWait ==
    /\ pc = "stopwait"
    /\ pc' = "close"
    /\ UNCHANGED <<config, buffer, started, unparsed, wg, wgStop, sites, pages,
                   retries, processed, results, closed, errors, done, stopped,
                   tasks, workers, called, errRead, failed>>

\* c.wgStop.Wait()
StopWait ==
    /\ pc = "stopwait"
    /\ wgStop = 0
    /\ pc' = "close"
    /\ UNCHANGED <<config, buffer, started, unparsed, wg, wgStop, sites, pages, retries, processed, results,
                   closed, errors, done, stopped, tasks, workers, called, errRead,
                   failed>>

\* close(c.results)
CloseResults ==
    /\ pc = "close"
    /\ closed' = TRUE
    /\ pc' = "delete"
    /\ UNCHANGED <<config, buffer, started, unparsed, wg, wgStop, sites, pages, retries, processed, results,
                   errors, done, stopped, tasks, workers, called, errRead, failed>>

\* faulty variant: the sentinel is left in the graph
DeleteRootSkipped ==
    /\ pc = "delete"
    /\ pc' = "release"
    /\ UNCHANGED <<config, buffer, started, unparsed, wg, wgStop, sites, pages, retries, processed, results,
                   closed, errors, done, stopped, tasks, workers, called, errRead,
                   failed>>

\* faulty variant: the sentinel is deleted only after completion was signalled
DeleteRootLate ==
    \/ DeleteRootSkipped
    \/ /\ pc = "end"
       /\ ROOT \in DOMAIN sites
       /\ sites' = [k \in DOMAIN sites \ {ROOT} |-> sites[k]]
       /\ UNCHANGED <<config, buffer, started, unparsed, wg, wgStop, pages, retries,
                      processed, results, closed, errors, done, pc, stopped, tasks,
                      workers, called, errRead, failed>>

\* delete(c.sites, "<root>")
DeleteRoot ==
    /\ pc = "delete"
    /\ sites' = [k \in DOMAIN sites \ {ROOT} |-> sites[k]]
    /\ pc' = "release"
    /\ UNCHANGED <<config, buffer, started, unparsed, wg, wgStop, pages, retries, processed, results, closed,
                   errors, done, stopped, tasks, workers, called, errRead, failed>>

\* c.retries = nil; c.processed = nil (a nil map reads as an empty one)
Release ==
    /\ pc = "release"
    /\ retries' = << >>
    /\ processed' = << >>
    /\ pc' = "done"
    /\ UNCHANGED <<config, buffer, started, unparsed, wg, wgStop, sites, pages, results, closed, errors, done,
                   stopped, tasks, workers, called, errRead, failed>>

\* c.done <- struct{}{} meets <-done of main
SignalDone ==
    /\ pc = "done"
    /\ done' = done + 1
    /\ pc' = "end"
    /\ UNCHANGED <<config, buffer, started, unparsed, wg, wgStop, sites, pages, retries, processed, results,
                   closed, errors, stopped, tasks, workers, called, errRead, failed>>

\* main: go func() { select { case e := <-errors: ... } }(), one receive
MainReadError ==
    /\ pc # "new"
    /\ ~errRead
    /\ errors > 0
    /\ errors' = errors - 1
    /\ errRead' = TRUE
    /\ UNCHANGED <<config, buffer, started, unparsed, wg, wgStop, sites, pages, retries, processed, results,
                   closed, done, pc, stopped, tasks, workers, called, failed>>

----------------------------------------------------------------------------
(* Crawler.crawl: one fetch task *)

Move(t, at) == (tasks (-) SetToBag({t})) (+) SetToBag({[t EXCEPT !.pc = at]})

\* the buffers d.pool.Get() may hand to a download: any buffer of the pool
\* of the default downloader, none (0) for a Downloader given in the Options
Buffers == IF downloader = "default" THEN 1..PoolSize ELSE {0}

\* b.ReadFrom(resp.Body): the buffer now holds the document at u
ReadFrom(b, u) == IF b = 0 THEN buffer ELSE [buffer EXCEPT ![b] = u]

\* c.downloader.Download(url) returns a body. The default downloader returns
\* b.Bytes(), a slice of the pooled buffer b, and its deferred d.pool.Put(b)
\* has already given b back when the caller gets the slice.
DownloadOk(t) ==
    /\ t.pc = "download"
    /\ \E b \in Buffers :
        /\ buffer' = ReadFrom(b, t.url)
        /\ tasks' = (tasks (-) SetToBag({t}))
                        (+) SetToBag({[t EXCEPT !.pc = "clear", !.body = b]})
    /\ UNCHANGED <<config, started, unparsed, wg, wgStop, sites, pages, retries,
                   processed, results, closed, errors, done, pc, stopped, workers,
                   called, errRead, failed>>

\* c.downloader.Download(url) returns an error
DownloadErr(t) ==
    /\ t.pc = "download"
    /\ t.url \in web.failing
    /\ tasks' = Move(t, "report")
    /\ UNCHANGED <<config, buffer, started, unparsed, wg, wgStop, sites, pages, retries, processed, results,
                   closed, errors, done, pc, stopped, workers, called, errRead,
                   failed>>

\* c.markBeingProcessed(url, false) after a successful download
ClearProcessed(t) ==
    /\ t.pc = "clear"
    /\ processed' = markBeingProcessed(t.url, FALSE)
    /\ tasks' = Move(t, "send")
    /\ UNCHANGED <<config, buffer, started, unparsed, wg, wgStop, sites, pages, retries, results, closed,
                   errors, done, pc, stopped, workers, called, errRead, failed>>

\* faulty variant: the task also does c.wg.Done() after it has sent its result
SendResultDone(t) ==
    /\ t.pc = "send"
    /\ ~closed
    /\ Len(results) < maxWorkers
    /\ results' = Append(results, [url |-> t.url, from |-> t.from,
                                   body |-> t.body])
    /\ wg' = wg - 1
    /\ tasks' = tasks (-) SetToBag({t})
    /\ UNCHANGED <<config, buffer, started, unparsed, wgStop, sites, pages, retries,
                   processed, closed, errors, done, pc, stopped, workers, called,
                   errRead, failed>>

\* c.results <- &result{...}: blocks while the buffer (cap maxWorkers) is full
SendResult(t) ==
    /\ t.pc = "send"
    /\ ~closed
    /\ Len(results) < maxWorkers
    /\ results' = Append(results, [url |-> t.url, from |-> t.from,
                                   body |-> t.body])
    /\ tasks' = tasks (-) SetToBag({t})
    /\ UNCHANGED <<config, buffer, started, unparsed, wg, wgStop, sites, pages, retries, processed, closed,
                   errors, done, pc, stopped, workers, called, errRead, failed>>

\* c.errors <- err: blocks while the buffer (cap 100) is full
ReportFetchError(t) ==
    /\ t.pc = "report"
    /\ errors < ErrorsCap
    /\ errors' = errors + 1
    /\ tasks' = Move(t, "retry?")
    /\ UNCHANGED <<config, buffer, started, unparsed, wg, wgStop, sites, pages, retries, processed, results,
                   closed, done, pc, stopped, workers, called, errRead, failed>>

\* if c.shouldRetry(url)
CheckRetry(t) ==
    /\ t.pc = "retry?"
    /\ tasks' = Move(t, IF shouldRetry(t.url) THEN "markRetry" ELSE "giveup")
    /\ UNCHANGED <<config, buffer, started, unparsed, wg, wgStop, sites, pages, retries, processed, results,
                   closed, errors, done, pc, stopped, workers, called, errRead,
                   failed>>

\* c.markRetry(url); c.crawl(url, from)
MarkRetry(t) ==
    /\ t.pc = "markRetry"
    /\ retries' = markRetry(t.url)
    /\ tasks' = Move(t, "download")
    /\ UNCHANGED <<config, buffer, started, unparsed, wg, wgStop, sites, pages, processed, results, closed,
                   errors, done, pc, stopped, workers, called, errRead, failed>>

\* c.markBeingProcessed(url, false) when the retry budget is exhausted
GiveUp(t) ==
    /\ t.pc = "giveup"
    /\ processed' = markBeingProcessed(t.url, FALSE)
    /\ failed' = failed \cup {t.url}
    /\ tasks' = Move(t, "wgDone")
    /\ UNCHANGED <<config, buffer, started, unparsed, wg, wgStop, sites, pages, retries, results, closed,
                   errors, done, pc, stopped, workers, called, errRead>>

\* c.wg.Done() of a task that gave up
TaskDone(t) ==
    /\ t.pc = "wgDone"
    /\ wg' = wg - 1
    /\ tasks' = tasks (-) SetToBag({t})
    /\ UNCHANGED <<config, buffer, started, unparsed, wgStop, sites, pages, retries, processed, results,
                   closed, errors, done, pc, stopped, workers, called, errRead,
                   failed>>

----------------------------------------------------------------------------
(* Crawler.collect: one extraction worker *)

\* what result.body holds when it is read: the document at result.url, or
\* whatever the pooled buffer under the slice holds by now
Body(result) == IF result.body = 0 THEN result.url ELSE buffer[result.body]

\* the links Extract found in the body
Links(w) == web.links[workers[w].doc]

Link(w) == Links(w)[workers[w].i]

At(w, at) == [workers EXCEPT ![w].pc = at]

\* the next iteration of `for _, link := range links`, or the end of the loop
NextLink(w) ==
    IF workers[w].i < Len(Links(w))
    THEN [workers EXCEPT ![w].pc = "hasVisited", ![w].i = @ + 1]
    ELSE At(w, "wgDone")

\* case result := <-c.results, and c.extractor.Extract(result.body) succeeds
Receive(w) ==
    /\ workers[w].pc = "select"
    /\ results # << >>
    /\ Body(Head(results)) \notin web.broken
    /\ results' = Tail(results)
    /\ pages' = Append(pages, NewPage(Body(Head(results)), Head(results).url,
                                      web.assets[Body(Head(results))]))
    /\ workers' = [workers EXCEPT ![w] =
                     [pc |-> "markVisited", url |-> Head(results).url,
                      from |-> Head(results).from, doc |-> Body(Head(results)),
                      page |-> Len(pages) + 1, i |-> 0]]
    /\ UNCHANGED <<config, buffer, started, unparsed, wg, wgStop, sites, retries,
                   processed, closed, errors, done, pc, stopped, tasks, called,
                   errRead, failed>>

\* case result := <-c.results, and c.extractor.Extract(result.body) fails
ReceiveBroken(w) ==
    /\ workers[w].pc = "select"
    /\ results # << >>
    /\ Body(Head(results)) \in web.broken
    /\ results' = Tail(results)
    /\ unparsed' = unparsed \cup {Head(results).url}
    /\ workers' = [workers EXCEPT ![w] =
                     [pc |-> "report", url |-> Head(results).url,
                      from |-> Head(results).from, doc |-> Body(Head(results)),
                      page |-> 0, i |-> 0]]
    /\ UNCHANGED <<config, buffer, started, wg, wgStop, sites, pages, retries,
                   processed, closed, errors, done, pc, stopped, tasks, called,
                   errRead, failed>>

\* c.markVisited(result.url, page)
MarkVisited(w) ==
    /\ workers[w].pc = "markVisited"
    /\ sites' = markVisited(workers[w].url, workers[w].page)
    /\ workers' = At(w, "addLinksTo")
    /\ UNCHANGED <<config, buffer, started, unparsed, wg, wgStop, pages, retries, processed, results, closed,
                   errors, done, pc, stopped, tasks, called, errRead, failed>>

\* c.addLinksTo(result.from, page)
AddLinksTo(w) ==
    /\ workers[w].pc = "addLinksTo"
    /\ pages' = addLinksTo(workers[w].from, workers[w].page)
    /\ workers' = NextLink(w)
    /\ UNCHANGED <<config, buffer, started, unparsed, wg, wgStop, sites, retries, processed, results, closed,
                   errors, done, pc, stopped, tasks, called, errRead, failed>>

\* if c.hasVisited(link)
HasVisited(w) ==
    /\ workers[w].pc = "hasVisited"
    /\ workers' = At(w, IF hasVisited(Link(w)) THEN "addLinkedFrom"
                        ELSE "isBeingProcessed")
    /\ UNCHANGED <<config, buffer, started, unparsed, wg, wgStop, sites, pages, retries, processed, results,
                   closed, errors, done, pc, stopped, tasks, called, errRead,
                   failed>>

\* c.addLinkedFrom(link, page)
AddLinkedFrom(w) ==
    /\ workers[w].pc = "addLinkedFrom"
    /\ pages' = addLinkedFrom(Link(w), workers[w].page)
    /\ workers' = NextLink(w)
    /\ UNCHANGED <<config, buffer, started, unparsed, wg, wgStop, sites, retries, processed, results, closed,
                   errors, done, pc, stopped, tasks, called, errRead, failed>>

\* !c.isBeingProcessed(link) && ...
IsBeingProcessed(w) ==
    /\ workers[w].pc = "isBeingProcessed"
    /\ workers' = IF isBeingProcessed(Link(w)) THEN NextLink(w)
                  ELSE At(w, "shouldRetry")
    /\ UNCHANGED <<config, buffer, started, unparsed, wg, wgStop, sites, pages, retries, processed, results,
                   closed, errors, done, pc, stopped, tasks, called, errRead,
                   failed>>

\* ... && c.shouldRetry(link)
ShouldRetry(w) ==
    /\ workers[w].pc = "shouldRetry"
    /\ workers' = IF shouldRetry(Link(w)) THEN At(w, "markBeingProcessed")
                  ELSE NextLink(w)
    /\ UNCHANGED <<config, buffer, started, unparsed, wg, wgStop, sites, pages, retries, processed, results,
                   closed, errors, done, pc, stopped, tasks, called, errRead,
                   failed>>

\* c.markBeingProcessed(link, true)
MarkBeingProcessed(w) ==
    /\ workers[w].pc = "markBeingProcessed"
    /\ processed' = markBeingProcessed(Link(w), TRUE)
    /\ workers' = At(w, "wgAdd")
    /\ UNCHANGED <<config, buffer, started, unparsed, wg, wgStop, sites, pages, retries, results, closed,
                   errors, done, pc, stopped, tasks, called, errRead, failed>>

\* c.wg.Add(1)
WgAdd(w) ==
    /\ workers[w].pc = "wgAdd"
    /\ wg' = wg + 1
    /\ workers' = At(w, "go")
    /\ UNCHANGED <<config, buffer, started, unparsed, wgStop, sites, pages, retries, processed, results,
                   closed, errors, done, pc, stopped, tasks, called, errRead,
                   failed>>

\* faulty variant: the fetch task is started without calling the callback
DispatchNoCallback(w) ==
    /\ workers[w].pc = "go"
    /\ tasks' = tasks (+) SetToBag({Task(Link(w), workers[w].url, "download")})
    /\ started' = started (+) SetToBag({Link(w)})
    /\ workers' = NextLink(w)
    /\ UNCHANGED <<config, buffer, unparsed, wg, wgStop, sites, pages, retries,
                   processed, results, closed, errors, done, pc, stopped, called,
                   errRead, failed>>

\* go c.crawl(link, result.url); if c.callback != nil { go c.callback(link) }
Dispatch(w) ==
    /\ workers[w].pc = "go"
    /\ tasks' = tasks (+) SetToBag({Task(Link(w), workers[w].url, "download")})
    /\ started' = started (+) SetToBag({Link(w)})
    /\ called' = IF callback THEN called (+) SetToBag({Link(w)}) ELSE called
    /\ workers' = NextLink(w)
    /\ UNCHANGED <<config, buffer, unparsed, wg, wgStop, sites, pages, retries, processed, results,
                   closed, errors, done, pc, stopped, errRead, failed>>

\* c.errors <- err: blocks while the buffer (cap 100) is full
ReportParseError(w) ==
    /\ workers[w].pc = "report"
    /\ errors < ErrorsCap
    /\ errors' = errors + 1
    /\ workers' = At(w, "wgDone")
    /\ UNCHANGED <<config, buffer, started, unparsed, wg, wgStop, sites, pages, retries, processed, results,
                   closed, done, pc, stopped, tasks, called, errRead, failed>>

\* faulty variant: the worker goes back to the select without c.wg.Done()
WgDoneSkipped(w) ==
    /\ workers[w].pc = "wgDone"
    /\ workers' = [workers EXCEPT ![w] = Idle]
    /\ UNCHANGED <<config, buffer, started, unparsed, wg, wgStop, sites, pages, retries, processed, results,
                   closed, errors, done, pc, stopped, tasks, called, errRead,
                   failed>>

\* c.wg.Done(), then back to the select
WgDone(w) ==
    /\ workers[w].pc = "wgDone"
    /\ wg' = wg - 1
    /\ workers' = [workers EXCEPT ![w] = Idle]
    /\ UNCHANGED <<config, buffer, started, unparsed, wgStop, sites, pages, retries, processed, results,
                   closed, errors, done, pc, stopped, tasks, called, errRead,
                   failed>>

\* return, and the deferred c.wgStop.Done()
Return(w) ==
    /\ workers[w].pc = "return"
    /\ wgStop' = wgStop - 1
    /\ workers' = At(w, "exited")
    /\ UNCHANGED <<config, buffer, started, unparsed, wg, sites, pages, retries, processed, results, closed,
                   errors, done, pc, stopped, tasks, called, errRead, failed>>

----------------------------------------------------------------------------
TaskStep(t) ==
    \/ DownloadOk(t)
    \/ DownloadErr(t)
    \/ ClearProcessed(t)
    \/ SendResult(t)
    \/ ReportFetchError(t)
    \/ CheckRetry(t)
    \/ MarkRetry(t)
    \/ GiveUp(t)
    \/ TaskDone(t)

WorkerStep(w) ==
    \/ Receive(w)
    \/ ReceiveBroken(w)
    \/ MarkVisited(w)
    \/ AddLinksTo(w)
    \/ HasVisited(w)
    \/ AddLinkedFrom(w)
    \/ IsBeingProcessed(w)
    \/ ShouldRetry(w)
    \/ MarkBeingProcessed(w)
    \/ WgAdd(w)
    \/ Dispatch(w)
    \/ ReportParseError(w)
    \/ WgDone(w)
    \/ Quit(w)
    \/ Return(w)

Next ==
    \/ Crawl
    \/ CrawlAdd
    \/ CrawlRoot
    \/ CrawlStart
    \/ CrawlWait
    \/ StopWait
    \/ CloseResults
    \/ DeleteRoot
    \/ Release
    \/ SignalDone
    \/ MainReadError
    \/ \E t \in BagToSet(tasks) : TaskStep(t)
    \/ \E w \in DOMAIN workers : WorkerStep(w)

Spec == Init /\ [][Next]_vars

\* Go runs some goroutine whenever one can run
FairSpec == Spec /\ WF_vars(Next)

CliqueSpec == CliqueInit /\ [][Next]_vars /\ WF_vars(Next)

CallSpec == CallInit /\ [][Next]_vars

----------------------------------------------------------------------------
(* Vocabulary of the properties *)

\* number of fetch tasks for u that are still fetching: Download has not yet
\* returned a body and the task has not given up
Fetching(u) ==
    BagCardinality([t \in {x \in BagToSet(tasks) :
                              x.url = u /\ x.pc \in {"download", "report",
                                                     "retry?", "markRetry"}}
                    |-> tasks[t]])

\* nothing dispatched is unresolved: no fetch task, no queued result, no
\* worker busy with a result
Resolved ==
    /\ tasks = EmptyBag
    /\ results = << >>
    /\ \A w \in DOMAIN workers : workers[w].pc \in {"select", "return", "exited"}

\* the pointer stored under key k, and the Page it points to
PageOf(k) == pages[sites[k]]

InSeq(x, q) == \E j \in 1..Len(q) : q[j] = x

URLs == DOMAIN web.links

----------------------------------------------------------------------------
(* C1..C10 *)

C2_NeverStuck == pc = "end" \/ ENABLED Next

\* C3: on a root linking to K cross-linked pages, with 1..K workers and no
\* failure, every fair run ends with completion signalled and exactly K+1 keys.
C3_CliqueTerminates ==
    (web.kind = "clique") =>
        <>(done = 1 /\ Cardinality(DOMAIN sites) = Cardinality(URLs))

C3_Witness ==
    /\ web.kind = "clique"
    /\ maxWorkers = 2
    /\ done = 1
    /\ Cardinality(DOMAIN sites) = 3
    /\ Len(pages) > 4

\* C4 (as claimed): a Page stored under a URL is never replaced by another
\* Page, that is markVisited runs at most once per URL.
C4_RegisteredOnce ==
    [][\A u \in DOMAIN sites \ {ROOT} :
          u \in DOMAIN sites' => sites'[u] = sites[u]]_vars

\* C5 (as claimed): at most one fetch task per URL is fetching at any moment.
C5_OneFetchPerUrl == \A u \in URLs : Fetching(u) <= 1

\* C6 (as claimed): A -> B -> A gives B in A.LinksTo and A in B.LinkedFrom,
\* and neither A in B.LinksTo nor B in A.LinkedFrom.
C6_Claimed ==
    (web.kind = "mutual" /\ done = 1 /\ "u1" \in DOMAIN sites) =>
        /\ InSeq(sites["u1"], PageOf("u0").LinksTo)
        /\ InSeq(sites["u0"], PageOf("u1").LinkedFrom)
        /\ ~InSeq(sites["u0"], PageOf("u1").LinksTo)
        /\ ~InSeq(sites["u1"], PageOf("u0").LinkedFrom)

\* C6 (amended): A -> B -> A gives B in A.LinksTo and B in A.LinkedFrom, and
\* neither A in B.LinksTo nor A in B.LinkedFrom.
C6_BackEdgeOnTarget ==
    (web.kind = "mutual" /\ done = 1 /\ "u1" \in DOMAIN sites) =>
        /\ InSeq(sites["u1"], PageOf("u0").LinksTo)
        /\ InSeq(sites["u1"], PageOf("u0").LinkedFrom)
        /\ ~InSeq(sites["u0"], PageOf("u1").LinksTo)
        /\ ~InSeq(sites["u0"], PageOf("u1").LinkedFrom)

C6_Witness == web.kind = "mutual" /\ done = 1 /\ "u1" \in DOMAIN sites

\* C7 (as claimed): once a fetch task has given up on a URL, Download is never
\* called for that URL again.
C7_NoDownloadAfterGiveUp ==
    [][\A t \in BagToSet(tasks) :
          t.url \in failed => ~(DownloadOk(t) \/ DownloadErr(t))]_vars

\* C8 (as claimed): a task or worker about to report an error is never held
\* up by a full error stream.
C8_ReportNeverBlocks ==
    /\ \A t \in BagToSet(tasks) : t.pc = "report" => ENABLED ReportFetchError(t)
    /\ \A w \in DOMAIN workers :
          workers[w].pc = "report" => ENABLED ReportParseError(w)

\* C9: on a chain root -> p1 -> ... -> pN with one worker and no failure,
\* every fair run ends with completion signalled and N+1 Pages; for N = 0
\* the single Page has no LinksTo, LinkedFrom or Assets.
C9_ChainTerminates ==
    (web.kind = "chain") =>
        <>(/\ done = 1
           /\ Cardinality(DOMAIN sites) = Cardinality(URLs)
           /\ DOMAIN sites = URLs
           /\ (Cardinality(URLs) = 1 =>
                 /\ PageOf(url).LinksTo = << >>
                 /\ PageOf(url).LinkedFrom = << >>
                 /\ PageOf(url).Assets = << >>))

C9_Witness ==
    /\ web.kind = "chain"
    /\ done = 1
    /\ Cardinality(DOMAIN sites) = MaxChain + 1

\* C10: once completion has been signalled the graph has no "<root>" key,
\* also when the root URL failed permanently.
C10_NoSentinelAtCompletion == done = 1 => ROOT \notin DOMAIN sites

C10_Witness == done = 1 /\ url \in failed /\ sites = << >>

\* C11: after the completion signal no step changes the Site Graph: no key is
\* added or removed, no Page replaced, no LinksTo or LinkedFrom list appended to.
C11_GraphFrozenAfterDone ==
    [][done = 1 => sites' = sites /\ pages' = pages]_vars

\* a completed crawl with a graph, in which the caller's error reader can
\* still take a step
C11_Witness ==
    /\ done = 1
    /\ errors > 0
    /\ ~errRead
    /\ url \in DOMAIN sites

\* the root URL of the call has no scheme or no host
InvalidRoot == call.rawurl.scheme = "" \/ call.rawurl.host = ""

\* C12: a constructor called with an invalid root URL returns an error, and
\* no worker and no fetch task is ever started, whichever constructor and
\* whichever options, an Extractor override included.
C12_InvalidRootRejected ==
    InvalidRoot => err # "nil" /\ workers = << >> /\ tasks = EmptyBag

\* C13 as claimed: with a callback configured, the callback invocations are
\* exactly the fetch tasks started, URL by URL and as many times.
C13_CalledPerStart == callback => called = started

\* the fetch tasks started by extraction workers: all but the one Crawl starts
\* for the root URL
StartedByWorkers ==
    IF BagIn(url, started) THEN started (-) SetToBag({url}) ELSE started

\* C13 amended: the callback is invoked once, with the link, for each fetch
\* task an extraction worker starts, and not for the root's task started by
\* Crawl; without a callback nothing is invoked.
C13_CalledPerWorkerStart ==
    called = IF callback THEN StartedByWorkers ELSE EmptyBag

\* a completed crawl with a callback, which was called for a link, not for the root
C13_Witness ==
    /\ callback
    /\ done = 1
    /\ BagIn("u1", called)
    /\ ~BagIn(url, called)

\* a fetched result for u is in the queue, or a worker is extracting it
Queued(u) ==
    \/ \E j \in 1..Len(results) : results[j].url = u
    \/ \E w \in DOMAIN workers :
          workers[w].url = u /\ workers[w].pc \notin {"select", "return", "exited"}

\* C14 (as claimed): while a fetched result of a discovered link is queued or
\* being extracted, the link's dispatched flag is still true.
C14_FlagHeldUntilExtracted ==
    \A u \in URLs \ {url} : Queued(u) => isBeingProcessed(u)

\* C15 (as claimed): a URL whose extraction failed has no Page, and Download
\* is never called for it again.
C15_UnparsedRetired ==
    [][/\ \A u \in unparsed : u \notin DOMAIN sites
       /\ \A t \in BagToSet(tasks) :
             t.url \in unparsed => ~(DownloadOk(t) \/ DownloadErr(t))]_vars

\* worker w has taken its stop signal
Stopped(w) == workers[w].pc \in {"return", "exited"}

\* C16: stop signals are sent only with the pending work counter at zero and
\* every worker takes exactly one (the workers stopped are the first `stopped`
\* ones); the result queue is closed only when all workers have terminated;
\* completion is signalled only with the queue closed; once the queue is
\* closed no fetch task is started and nothing is sent on the queue.
C16_ShutdownOrder ==
    /\ [](/\ stopped > 0 => wg = 0
          /\ stopped <= maxWorkers
          /\ \A w \in DOMAIN workers : Stopped(w) <=> w <= stopped
          /\ closed => \A w \in DOMAIN workers : workers[w].pc = "exited"
          /\ closed => stopped = maxWorkers /\ wgStop = 0
          /\ done = 1 => closed)
    /\ [][closed => started' = started /\ results' = results]_vars

\* two workers have been stopped and have returned, the queue is closed and
\* completion is not yet signalled
C16_Witness ==
    /\ closed
    /\ done = 0
    /\ maxWorkers = 2
    /\ stopped = 2
    /\ url \in DOMAIN sites

\* the workers whose position is one of pcs
WorkersAt(pcs) == {w \in DOMAIN workers : workers[w].pc \in pcs}

\* fetch tasks in flight, results queued, results being extracted
InFlight ==
    BagCardinality(tasks) + Len(results)
        + Cardinality(DOMAIN workers \ WorkersAt({"select", "return", "exited"}))

\* c.wg.Add(1) done, the fetch task it announces not yet started
Announced ==
    (IF pc \in {"root", "crawl"} THEN 1 ELSE 0) + Cardinality(WorkersAt({"go"}))

\* C17 as claimed: the pending work counter equals the number of fetch tasks
\* in flight plus the results queued or being extracted, in every state.
C17_CounterIsInFlight == wg = InFlight

\* C17 amended: the counter equals the fetch tasks in flight plus the results
\* queued or being extracted plus the fetch tasks announced by wg.Add(1) and
\* not yet started (a worker between wg.Add(1) and go c.crawl is counted as
\* extracting once and as announcing once); it is never negative, and once
\* back at zero after the root's increment it stays zero.
C17_CounterIsPending ==
    /\ [](wg = InFlight + Announced /\ wg >= 0)
    /\ [][(pc \notin {"new", "add"} /\ wg = 0) => wg' = 0]_vars

\* a worker has incremented the counter for a link and not yet started the
\* task, while another task is in flight
C17_Witness ==
    /\ WorkersAt({"go"}) # {}
    /\ tasks # EmptyBag
    /\ wg = 3

\* C18 (as claimed): a queued result's body is the document downloaded for
\* the result's URL, and that is what a worker has read when it extracts it.
C18_BodyIsOwnDownload ==
    /\ \A j \in 1..Len(results) : Body(results[j]) = results[j].url
    /\ \A w \in DOMAIN workers : workers[w].doc = workers[w].url

\* C19 (as claimed): no URL's retry counter ever exceeds maxRetries.
C19_RetriesWithinBudget == \A u \in URLs : retryCount(u) <= maxRetries

\* C20: with maxRetries = 0 the only fetch task ever started is the root's,
\* started once and never retried; the callback is never called, and the
\* graph never holds a Page of any other URL.
C20_OnlyRootWithoutRetries ==
    maxRetries = 0 =>
        /\ \A u \in BagToSet(started) : u = url /\ started[u] = 1
        /\ called = EmptyBag
        /\ retries = << >>
        /\ DOMAIN sites \subseteq {ROOT, url}

\* a completed crawl with maxRetries = 0 of a root that links to other pages:
\* the graph holds the root's Page alone
C20_Witness ==
    /\ maxRetries = 0
    /\ done = 1
    /\ web.links[url] # << >>
    /\ DOMAIN sites = {url}

====
